---- MODULE Spec2Model ----
(***************************************************************************)
(* A model of src/components/video-converter.tsx: the VideoConverter React *)
(* component.  The component state is the useState/useRef cells; every     *)
(* convertToAudio invocation is a process that suspends at each await; the *)
(* transcoding engine (FFmpeg instances with a virtual filesystem), the    *)
(* media-duration probe and the object-URL registry are the environment.   *)
(*                                                                         *)
(* A nullable value is a sequence of length 0 (null) or 1 (the value).     *)
(* A JavaScript number is an extended rational [num, den]: den = 1 for an  *)
(* integer, num/den for a fraction, 1/0 for Infinity and 0/0 for NaN.      *)
(* The picker's own value (fileInputRef.current.value, cleared by          *)
(* resetConverter) is DOM state that no handler reads; it is not kept.     *)
(***************************************************************************)
EXTENDS Integers, Sequences, FiniteSets, TLC

VARIABLES file, isConverting, progress, convertedAudio, audioSize, error,
          isDragging, ffmpegRef, conv, vfs, urls, consoleErrors

vars == <<file, isConverting, progress, convertedAudio, audioSize, error,
          isDragging, ffmpegRef, conv, vfs, urls, consoleErrors>>

\* The useState cells of the component.
ui == <<file, isConverting, progress, convertedAudio, audioSize, error, isDragging>>

\* The engine and the host runtime.
env == <<ffmpegRef, vfs, urls, consoleErrors>>

----------------------------------------------------------------------------
\* Bounds of the model.

\* convertToAudio invocations in one behaviour.
MaxConv == 2

\* The bitrate specification draws file sizes 0..MaxSize (bytes) and
\* durations 0..MaxHalfSeconds (half seconds).
MaxSize == 12000

MaxHalfSeconds == 6

----------------------------------------------------------------------------
\* Nullable values.

Null == <<>>

Some(x) == <<x>>

IsNull(o) == Len(o) = 0

Val(o) == o[1]

----------------------------------------------------------------------------
\* Strings as sequences of characters.  A character is a code point up to
\* U+00FF (ASCII and the Latin-1 supplement); on these String.prototype.toLowerCase
\* maps each of the 56 capitals below to its small letter, one for one and
\* whatever its context, and leaves every other character as it is.

UpperCase == <<"A","B","C","D","E","F","G","H","I","J","K","L","M",
               "N","O","P","Q","R","S","T","U","V","W","X","Y","Z",
               "À","Á","Â","Ã","Ä","Å","Æ","Ç","È","É","Ê","Ë","Ì","Í","Î",
               "Ï","Ð","Ñ","Ò","Ó","Ô","Õ","Ö","Ø","Ù","Ú","Û","Ü","Ý","Þ">>

LowerCase == <<"a","b","c","d","e","f","g","h","i","j","k","l","m",
               "n","o","p","q","r","s","t","u","v","w","x","y","z",
               "à","á","â","ã","ä","å","æ","ç","è","é","ê","ë","ì","í","î",
               "ï","ð","ñ","ò","ó","ô","õ","ö","ø","ù","ú","û","ü","ý","þ">>

UpperToLower ==
    [c \in { UpperCase[k] : k \in 1..Len(UpperCase) } |->
        LowerCase[CHOOSE k \in 1..Len(UpperCase) : UpperCase[k] = c]]

LowerChar(c) == IF c \in DOMAIN UpperToLower THEN UpperToLower[c] ELSE c

toLowerCase(s) == [k \in 1..Len(s) |-> LowerChar(s[k])]

startsWith(s, p) == Len(s) >= Len(p) /\ SubSeq(s, 1, Len(p)) = p

endsWith(s, p) == Len(s) >= Len(p) /\ SubSeq(s, Len(s) - Len(p) + 1, Len(s)) = p

VideoPrefix == <<"v","i","d","e","o","/">>

AudioMpeg == <<"a","u","d","i","o","/","m","p","e","g">>

DotMp3 == <<".","m","p","3">>

----------------------------------------------------------------------------
\* The files the user can offer.

VideoMp4 == <<"v","i","d","e","o","/","m","p","4">>

TextPlain == <<"t","e","x","t","/","p","l","a","i","n">>

\* A video, a video named like an MP3, an MP3 by its type alone, an MP3 by its
\* upper-case extension alone, and a text file.
Files ==
    { [type |-> VideoMp4,  name |-> <<"a",".","m","p","4">>, size |-> 104857600],
      [type |-> VideoMp4,  name |-> <<"c",".","m","p","3">>, size |-> 52428800],
      [type |-> AudioMpeg, name |-> <<"b",".","m","p","g","a">>, size |-> 2891],
      [type |-> <<>>,      name |-> <<"e",".","M","P","3">>, size |-> 6000],
      [type |-> TextPlain, name |-> <<"d",".","t","x","t">>, size |-> 10] }

\* Messages of setError.
ValidationMsg == "Please select a valid video or MP3 file"

FailedMsg == "Failed to convert video. Please try again."

IsVideo(f) == startsWith(f.type, VideoPrefix)

IsAudio(f) == f.type = AudioMpeg \/ endsWith(toLowerCase(f.name), DotMp3)

----------------------------------------------------------------------------
\* JavaScript numbers.

Num(n) == [num |-> n, den |-> 1]

Infinity == [num |-> 1, den |-> 0]

NaN == [num |-> 0, den |-> 0]

IsNaN(x) == x.den = 0 /\ x.num = 0

IsInfinity(x) == x.den = 0 /\ x.num # 0

IsFinite(x) == x.den # 0

\* x <= y for numbers that are not NaN.
Leq(x, y) ==
    IF IsInfinity(y) THEN TRUE
    ELSE IF IsInfinity(x) THEN FALSE
    ELSE x.num * y.den <= y.num * x.den

\* Math.max and Math.min: NaN if an argument is NaN.
MathMax(x, y) == IF IsNaN(x) \/ IsNaN(y) THEN NaN ELSE IF Leq(x, y) THEN y ELSE x

MathMin(x, y) == IF IsNaN(x) \/ IsNaN(y) THEN NaN ELSE IF Leq(x, y) THEN x ELSE y

\* Math.floor.
MathFloor(x) == IF IsFinite(x) THEN Num(x.num \div x.den) ELSE x

\* n / d for an integer n >= 0 and a duration d >= 0.
DivByDuration(n, d) ==
    IF IsNaN(d) THEN NaN
    ELSE IF IsInfinity(d) THEN Num(0)
    ELSE IF d.num = 0 THEN (IF n = 0 THEN NaN ELSE Infinity)
    ELSE [num |-> n * d.den, den |-> d.num]

\* x / 1000.
DivBy1000(x) == IF IsFinite(x) THEN [num |-> x.num, den |-> x.den * 1000] ELSE x

----------------------------------------------------------------------------
\* The bitrate heuristic of convertToAudio.

\* Math.round in place of Math.floor.
TargetSizeBytesRounded(size) == (size * 8 + 5) \div 10

\* Math.floor(file.size * 0.8)
TargetSizeBytes(size) == (size * 4) \div 5

\* Math.floor((targetSizeBytes * 8) / mediaDuration / 1000)
TargetBitrate(targetSizeBytes, mediaDuration) ==
    MathFloor(DivBy1000(DivByDuration(targetSizeBytes * 8, mediaDuration)))

\* Math.min(Math.max(targetBitrate, 32), 320)
ClampBitrate(targetBitrate) == MathMin(MathMax(targetBitrate, Num(32)), Num(320))

Bitrate(size, mediaDuration) ==
    ClampBitrate(TargetBitrate(TargetSizeBytes(size), mediaDuration))

\* The file test of convertToAudio, and the name the input is written under.
IsAudioFile(f) == f.type = AudioMpeg \/ endsWith(toLowerCase(f.name), DotMp3)

InputFileName(f) == IF IsAudioFile(f) THEN "input.mp3" ELSE "input.mp4"

\* ffmpegArgs; the `${bitrate}k` argument is the token "<bitrate>k" in argv,
\* with the number it is formatted from beside it.
FfmpegArgs(f, bitrate) ==
    [argv |-> IF IsAudioFile(f)
              THEN <<"-i", InputFileName(f), "-acodec", "libmp3lame",
                     "-b:a", "<bitrate>k", "-ar", "44100", "output.mp3">>
              ELSE <<"-i", InputFileName(f), "-vn", "-acodec", "libmp3lame",
                     "-b:a", "<bitrate>k", "-ar", "44100", "output.mp3">>,
     bitrate |-> bitrate]

\* Math.round(prog * 100) for a fraction prog >= 0.
ProgressPercent(prog) == (200 * prog.num + prog.den) \div (2 * prog.den)

----------------------------------------------------------------------------
\* Inputs from the environment.

\* The duration the metadata probe reports: 100 s (the bitrate specification
\* below draws the others).
Durations == { Num(100) }

\* Completion fractions the engine reports during exec.
Fractions == { [num |-> 1, den |-> 2], Num(1) }

\* Sizes of the output.mp3 an exec produces.
OutSizes == { 2000 }

\* Engines are numbered by the invocation that created them; ffmpegRef.current
\* is null before the first one is cached.
NoEngine == 0

FsNames == { "input.mp4", "input.mp3", "output.mp3" }

Invocations == 1..MaxConv

\* The awaits of convertToAudio and loadFFmpeg whose promise can reject.
Rejectable == { "toBlobURL1", "toBlobURL2", "load", "fetchFile", "writeFile",
                "exec", "readFile", "deleteFile1", "deleteFile2" }

InFlight(i) == conv[i].pc \notin { "idle", "done" }

IdleConv ==
    [pc |-> "idle", file |-> Null, ffmpeg |-> NoEngine, dur |-> Null, args |-> Null,
     data |-> Null, frac |-> Num(0)]

EmptyFs == [n \in FsNames |-> Null]

ProbeUrl(i) == [kind |-> "probe", inv |-> i]

OutputUrl(i) == [kind |-> "output", inv |-> i]

Init ==
    /\ file = Null
    /\ isConverting = FALSE
    /\ progress = 0
    /\ convertedAudio = Null
    /\ audioSize = 0
    /\ error = Null
    /\ isDragging = FALSE
    /\ ffmpegRef = NoEngine
    /\ conv = [i \in Invocations |-> IdleConv]
    /\ vfs = [i \in Invocations |-> EmptyFs]
    /\ urls = {}
    /\ consoleErrors = 0

----------------------------------------------------------------------------
\* Input acquisition.

\* A handleFileChange that also resets the progress of a rejected selection.
handleFileChangeResettingProgress(selectedFile) ==
    IF ~IsVideo(selectedFile) /\ ~IsAudio(selectedFile)
    THEN /\ error' = Some(ValidationMsg)
         /\ progress' = 0
         /\ UNCHANGED <<file, convertedAudio>>
    ELSE /\ file' = Some(selectedFile)
         /\ convertedAudio' = Null
         /\ error' = Null
         /\ progress' = 0

\* handleFileChange(selectedFile)
handleFileChange(selectedFile) ==
    IF ~IsVideo(selectedFile) /\ ~IsAudio(selectedFile)
    THEN /\ error' = Some(ValidationMsg)
         /\ UNCHANGED <<file, convertedAudio, progress>>
    ELSE /\ file' = Some(selectedFile)
         /\ convertedAudio' = Null
         /\ error' = Null
         /\ progress' = 0

\* The hidden file input's onChange; the input is opened by the Upload button,
\* which is disabled while converting.
PickFile(f) ==
    /\ ~isConverting
    /\ handleFileChange(f)
    /\ UNCHANGED <<isConverting, audioSize, isDragging, conv>>
    /\ UNCHANGED env

handleDragOver ==
    /\ isDragging' = TRUE
    /\ UNCHANGED <<file, isConverting, progress, convertedAudio, audioSize, error, conv>>
    /\ UNCHANGED env

handleDragLeave ==
    /\ isDragging' = FALSE
    /\ UNCHANGED <<file, isConverting, progress, convertedAudio, audioSize, error, conv>>
    /\ UNCHANGED env

\* handleDrop with e.dataTransfer.files[0] = droppedFile (Null: nothing dropped).
handleDrop(droppedFile) ==
    /\ isDragging' = FALSE
    /\ IF IsNull(droppedFile)
       THEN UNCHANGED <<file, convertedAudio, error, progress>>
       ELSE handleFileChange(Val(droppedFile))
    /\ UNCHANGED <<isConverting, audioSize, conv>>
    /\ UNCHANGED env

\* resetConverter()
resetConverter ==
    /\ file' = Null
    /\ convertedAudio' = Null
    /\ progress' = 0
    /\ error' = Null
    /\ audioSize' = 0
    /\ UNCHANGED <<isConverting, isDragging, conv>>
    /\ UNCHANGED env

\* The X button beside the selected file: disabled={isConverting}.
ClickRemove ==
    /\ ~IsNull(file)
    /\ ~isConverting
    /\ resetConverter

\* The "Convert Another" button of the download card (no disabled guard).
ClickConvertAnother ==
    /\ ~IsNull(convertedAudio)
    /\ resetConverter

----------------------------------------------------------------------------
\* The transcode orchestrator: convertToAudio and loadFFmpeg, one action for
\* each stretch of code between two awaits.  conv[i].pc names the call that
\* invocation i is awaiting.

\* A Convert button that is not disabled while converting.
ConvertEnabledWhileConverting == ~IsNull(file)

\* The Convert button: disabled={!file || isConverting}.
ConvertEnabled == ~IsNull(file) /\ ~isConverting

\* A loadFFmpeg that never finds the cached engine.
CachedEngineIgnored == NoEngine

\* loadFFmpeg's test of the cached engine.
CachedEngine == ffmpegRef

\* The invocation a click on Convert starts: the first unused one.
NextInvocation(i) ==
    /\ conv[i].pc = "idle"
    /\ \A j \in Invocations : j < i => conv[j].pc # "idle"

\* convertToAudio up to its first suspension: the state writes, then loadFFmpeg
\* up to `await toBlobURL(...)`, or with a cached engine on to `await fetchFile(file)`.
convertToAudio(i) ==
    IF IsNull(file)
    THEN UNCHANGED vars
    ELSE /\ isConverting' = TRUE
         /\ error' = Null
         /\ progress' = 0
         /\ conv' = [conv EXCEPT ![i] =
                [IdleConv EXCEPT
                    !.file = file,
                    !.ffmpeg = IF CachedEngine # NoEngine THEN CachedEngine ELSE i,
                    !.pc = IF CachedEngine # NoEngine THEN "fetchFile" ELSE "toBlobURL1"]]
         /\ UNCHANGED <<file, convertedAudio, audioSize, isDragging>>
         /\ UNCHANGED env

ClickConvert(i) ==
    /\ ConvertEnabled
    /\ NextInvocation(i)
    /\ convertToAudio(i)

\* toBlobURL of ffmpeg-core.js resolves; toBlobURL of ffmpeg-core.wasm is called.
CoreUrlFetched(i) ==
    /\ conv[i].pc = "toBlobURL1"
    /\ conv' = [conv EXCEPT ![i].pc = "toBlobURL2"]
    /\ UNCHANGED ui
    /\ UNCHANGED env

\* toBlobURL of ffmpeg-core.wasm resolves; ffmpeg.load is called.
WasmUrlFetched(i) ==
    /\ conv[i].pc = "toBlobURL2"
    /\ conv' = [conv EXCEPT ![i].pc = "load"]
    /\ UNCHANGED ui
    /\ UNCHANGED env

\* ffmpeg.load resolves: the engine is cached, loadFFmpeg returns, and
\* convertToAudio goes on to `await fetchFile(file)`.
Loaded(i) ==
    /\ conv[i].pc = "load"
    /\ ffmpegRef' = conv[i].ffmpeg
    /\ conv' = [conv EXCEPT ![i].pc = "fetchFile"]
    /\ UNCHANGED ui
    /\ UNCHANGED <<vfs, urls, consoleErrors>>

\* fetchFile resolves; ffmpeg.writeFile(inputFileName, ...) is called.
FileFetched(i) ==
    /\ conv[i].pc = "fetchFile"
    /\ conv' = [conv EXCEPT ![i].pc = "writeFile"]
    /\ UNCHANGED ui
    /\ UNCHANGED env

\* writeFile resolves; getAudioDuration / getVideoDuration creates the media
\* element and an object URL for the file.
FileWritten(i) ==
    /\ conv[i].pc = "writeFile"
    /\ vfs' = [vfs EXCEPT ![conv[i].ffmpeg][InputFileName(Val(conv[i].file))] =
                    Some([input |-> Val(conv[i].file)])]
    /\ urls' = urls \cup { ProbeUrl(i) }
    /\ conv' = [conv EXCEPT ![i].pc = "probe"]
    /\ UNCHANGED ui
    /\ UNCHANGED <<ffmpegRef, consoleErrors>>

\* onloadedmetadata: the probe's URL is revoked and the promise resolves with
\* the duration; the bitrate and ffmpegArgs are computed and ffmpeg.exec is called.
MetadataLoaded(i, duration) ==
    /\ conv[i].pc = "probe"
    /\ urls' = urls \ { ProbeUrl(i) }
    /\ conv' = [conv EXCEPT
            ![i].pc = "exec",
            ![i].dur = Some(duration),
            ![i].frac = Num(0),
            ![i].args = Some(FfmpegArgs(Val(conv[i].file),
                                        Bitrate(Val(conv[i].file).size, duration)))]
    /\ UNCHANGED ui
    /\ UNCHANGED <<ffmpegRef, vfs, consoleErrors>>

\* The media element cannot load the file's metadata: it fires "error", for which
\* the probe registers no handler, so the promise neither resolves nor rejects,
\* the probe's URL stays, and convertToAudio never resumes.
MetadataError(i) ==
    /\ conv[i].pc = "probe"
    /\ conv' = [conv EXCEPT ![i].pc = "probeError"]
    /\ UNCHANGED ui
    /\ UNCHANGED env

\* The "progress" listener of loadFFmpeg, on an event of the engine running exec.
OnProgress(i, prog) ==
    /\ conv[i].pc = "exec"
    /\ progress' = ProgressPercent(prog)
    /\ conv' = [conv EXCEPT ![i].frac = prog]
    /\ UNCHANGED <<file, isConverting, convertedAudio, audioSize, error, isDragging>>
    /\ UNCHANGED env

\* exec resolves (its exit status is ignored): out is the size of the output.mp3
\* it produced, or Null when it produced none; readFile("output.mp3") is called.
ExecReturned(i, out) ==
    /\ conv[i].pc = "exec"
    /\ vfs' = IF IsNull(out) THEN vfs
              ELSE [vfs EXCEPT ![conv[i].ffmpeg]["output.mp3"] =
                        Some([by |-> i, size |-> Val(out)])]
    /\ conv' = [conv EXCEPT ![i].pc = "readFile"]
    /\ UNCHANGED ui
    /\ UNCHANGED <<ffmpegRef, urls, consoleErrors>>

\* readFile resolves: the blob and its object URL are made, setConvertedAudio and
\* setAudioSize run, and deleteFile(inputFileName) is called.
OutputRead(i) ==
    /\ conv[i].pc = "readFile"
    /\ ~IsNull(vfs[conv[i].ffmpeg]["output.mp3"])
    /\ urls' = urls \cup { OutputUrl(i) }
    /\ convertedAudio' = Some(OutputUrl(i))
    /\ audioSize' = Val(vfs[conv[i].ffmpeg]["output.mp3"]).size
    /\ conv' = [conv EXCEPT
            ![i].pc = "deleteFile1",
            ![i].data = vfs[conv[i].ffmpeg]["output.mp3"]]
    /\ UNCHANGED <<file, isConverting, progress, error, isDragging>>
    /\ UNCHANGED <<ffmpegRef, vfs, consoleErrors>>

\* deleteFile(inputFileName) resolves; deleteFile("output.mp3") is called.
InputDeleted(i) ==
    /\ conv[i].pc = "deleteFile1"
    /\ ~IsNull(vfs[conv[i].ffmpeg][InputFileName(Val(conv[i].file))])
    /\ vfs' = [vfs EXCEPT ![conv[i].ffmpeg][InputFileName(Val(conv[i].file))] = Null]
    /\ conv' = [conv EXCEPT ![i].pc = "deleteFile2"]
    /\ UNCHANGED ui
    /\ UNCHANGED <<ffmpegRef, urls, consoleErrors>>

\* An invocation that has returned: its locals are dead.
Returned == [IdleConv EXCEPT !.pc = "done"]

\* deleteFile("output.mp3") resolves; finally: setIsConverting(false).
OutputDeleted(i) ==
    /\ conv[i].pc = "deleteFile2"
    /\ ~IsNull(vfs[conv[i].ffmpeg]["output.mp3"])
    /\ vfs' = [vfs EXCEPT ![conv[i].ffmpeg]["output.mp3"] = Null]
    /\ isConverting' = FALSE
    /\ conv' = [conv EXCEPT ![i] = Returned]
    /\ UNCHANGED <<file, progress, convertedAudio, audioSize, error, isDragging>>
    /\ UNCHANGED <<ffmpegRef, urls, consoleErrors>>

\* A catch block that retries the conversion from fetchFile.
CaughtRetrying(c) == [c EXCEPT !.pc = "fetchFile"]

\* What the catch and finally blocks leave of invocation c: it has returned.
Caught(c) == Returned

\* The awaited promise rejects: catch logs the error and sets the message,
\* finally clears isConverting.
Rejected(i) ==
    /\ conv[i].pc \in Rejectable
    /\ consoleErrors' = consoleErrors + 1
    /\ error' = Some(FailedMsg)
    /\ isConverting' = FALSE
    /\ conv' = [conv EXCEPT ![i] = Caught(conv[i])]
    /\ UNCHANGED <<file, progress, convertedAudio, audioSize, isDragging>>
    /\ UNCHANGED <<ffmpegRef, vfs, urls>>

----------------------------------------------------------------------------

Next ==
    \/ \E f \in Files : PickFile(f)
    \/ handleDragOver
    \/ handleDragLeave
    \/ \E f \in Files : handleDrop(Some(f))
    \/ handleDrop(Null)
    \/ ClickRemove
    \/ ClickConvertAnother
    \/ \E i \in Invocations : ClickConvert(i)
    \/ \E i \in Invocations : CoreUrlFetched(i)
    \/ \E i \in Invocations : WasmUrlFetched(i)
    \/ \E i \in Invocations : Loaded(i)
    \/ \E i \in Invocations : FileFetched(i)
    \/ \E i \in Invocations : FileWritten(i)
    \/ \E i \in Invocations, d \in Durations : MetadataLoaded(i, d)
    \/ \E i \in Invocations : MetadataError(i)
    \/ \E i \in Invocations, p \in Fractions : OnProgress(i, p)
    \/ \E i \in Invocations, n \in OutSizes : ExecReturned(i, Some(n))
    \/ \E i \in Invocations : ExecReturned(i, Null)
    \/ \E i \in Invocations : OutputRead(i)
    \/ \E i \in Invocations : InputDeleted(i)
    \/ \E i \in Invocations : OutputDeleted(i)
    \/ \E i \in Invocations : Rejected(i)

Spec == Init /\ [][Next]_vars

----------------------------------------------------------------------------
\* The bitrate heuristic on its own: a conversion of a video of any size up to
\* MaxSize (and of the 100 MB and 50 MB files) stands at the metadata probe, and
\* the probe reports any duration of 0 to MaxHalfSeconds half seconds, 100 s,
\* 300 s or Infinity.

ProbedSizes == (0..MaxSize) \cup { 104857600, 52428800 }

ProbedDurations ==
    { [num |-> n, den |-> 2] : n \in 0..MaxHalfSeconds }
        \cup { Num(100), Num(300), Infinity }

ProbedFile(size) == [type |-> VideoMp4, name |-> <<"a",".","m","p","4">>, size |-> size]

InitBitrate ==
    \E size \in ProbedSizes :
        /\ file = Some(ProbedFile(size))
        /\ isConverting = TRUE
        /\ progress = 0
        /\ convertedAudio = Null
        /\ audioSize = 0
        /\ error = Null
        /\ isDragging = FALSE
        /\ ffmpegRef = 1
        /\ conv = [i \in Invocations |->
                    IF i = 1
                    THEN [IdleConv EXCEPT !.pc = "probe", !.ffmpeg = 1,
                                          !.file = Some(ProbedFile(size))]
                    ELSE IdleConv]
        /\ vfs = [i \in Invocations |->
                    IF i = 1
                    THEN [EmptyFs EXCEPT ![InputFileName(ProbedFile(size))] =
                                Some([input |-> ProbedFile(size)])]
                    ELSE EmptyFs]
        /\ urls = { ProbeUrl(1) }
        /\ consoleErrors = 0

NextBitrate == \E d \in ProbedDurations : MetadataLoaded(1, d)

BitrateSpec == InitBitrate /\ [][NextBitrate]_vars

----------------------------------------------------------------------------
\* Properties.

AnyInFlight == \E i \in Invocations : InFlight(i)

\* C1: an output (convertedAudio non-null) exists only in Done: never while a
\* conversion is in flight and never together with a failure message.
C1_OutputOnlyWhenDone ==
    ~IsNull(convertedAudio) => (~isConverting /\ IsNull(error))

\* C2: at most one convertToAudio invocation is between its start and its
\* finally block, isConverting is set exactly while one is, and so no second
\* writeFile or exec is issued before the first conversion has ended.
C2_SingleConversion ==
    /\ Cardinality({ i \in Invocations : InFlight(i) }) <= 1
    /\ isConverting <=> AnyInFlight

\* A conversion is awaiting exec while a file is selected and an invocation is
\* still unused: only the disabled button keeps a second conversion from starting.
C2_Witness ==
    /\ \E i \in Invocations : conv[i].pc = "exec"
    /\ \E i \in Invocations : conv[i].pc = "idle"
    /\ ~IsNull(file)

\* C4: a failure or validation message is never present together with a
\* conversion in flight or with an output.
C4_ErrorExcludesConvertingAndOutput ==
    ~IsNull(error) => (~isConverting /\ IsNull(convertedAudio))

\* C8: every object URL created for an output and not revoked is the output on
\* display: no output URL is discarded without being revoked.
C8_DiscardedOutputUrlsRevoked ==
    \A u \in urls : u.kind = "output" => convertedAudio = Some(u)

\* The step is a selection of file f, by the picker or by a drop.
Selects(f) == PickFile(f) \/ handleDrop(Some(f))

\* The file is outside the accepted kinds as the claim words them, the name
\* compared as written.
C3_NotAccepted(f) ==
    /\ ~startsWith(f.type, VideoPrefix)
    /\ f.type # AudioMpeg
    /\ ~endsWith(f.name, DotMp3)

\* The same, the name compared without regard to letter case.
C3_NotAcceptedAnyCase(f) ==
    /\ ~startsWith(f.type, VideoPrefix)
    /\ f.type # AudioMpeg
    /\ ~endsWith(toLowerCase(f.name), DotMp3)

C3_FilesNotAccepted == { f \in Files : C3_NotAccepted(f) }

C3_FilesNotAcceptedAnyCase == { f \in Files : C3_NotAcceptedAnyCase(f) }

\* C3 as stated: the selection of a file that is not video/*, not audio/mpeg and
\* not named *.mp3 leaves file, convertedAudio, progress, audioSize and error
\* as they were.
C3_RejectedSelectionChangesNothing ==
    [][\A f \in C3_FilesNotAccepted : Selects(f) =>
            UNCHANGED <<file, convertedAudio, progress, audioSize, error>>]_vars

\* C3 as amended: the selection of a file that is not video/*, not audio/mpeg and
\* not named *.mp3 in any letter case leaves file, convertedAudio, progress,
\* audioSize and isConverting as they were and sets error to the validation
\* message.
C3_RejectedSelectionSetsOnlyError ==
    [][\A f \in C3_FilesNotAcceptedAnyCase : Selects(f) =>
            /\ UNCHANGED <<file, convertedAudio, progress, audioSize, isConverting>>
            /\ error' = Some(ValidationMsg)]_vars

\* A rejected selection has arrived while an output was on display: the
\* validation message stands beside the file, the output and its progress.
C3_Witness ==
    /\ error = Some(ValidationMsg)
    /\ ~IsNull(file)
    /\ ~IsNull(convertedAudio)
    /\ progress > 0

\* The Idle defaults, with no conversion in flight.
IdleDefaults ==
    /\ IsNull(file)
    /\ IsNull(convertedAudio)
    /\ progress = 0
    /\ IsNull(error)
    /\ audioSize = 0
    /\ ~isConverting
    /\ ~AnyInFlight

\* The step is a reset, by the X button or by "Convert Another".
Resets == ClickRemove \/ ClickConvertAnother

\* The five cells resetConverter writes hold their defaults.
C7_CellDefaults ==
    /\ IsNull(file)
    /\ IsNull(convertedAudio)
    /\ progress = 0
    /\ IsNull(error)
    /\ audioSize = 0

\* C7: a reset while an output is present leaves the Idle defaults (file,
\* convertedAudio and error null, progress and audioSize 0, no conversion in
\* flight), and the cells keep their defaults until the next selection by the user.
C7_ResetAfterDoneRestoresIdle ==
    [][/\ (~IsNull(convertedAudio) /\ Resets) => IdleDefaults'
       /\ C7_CellDefaults => (C7_CellDefaults' \/ \E f \in Files : Selects(f))]_vars

\* The awaits of loadFFmpeg.
LoadingPcs == { "toBlobURL1", "toBlobURL2", "load" }

\* The awaits of convertToAudio that use the engine loadFFmpeg returned.
EnginePcs == { "fetchFile", "writeFile", "probe", "exec", "readFile",
               "deleteFile1", "deleteFile2" }

\* C9: once loadFFmpeg has cached an engine, ffmpegRef never changes, no
\* invocation is in loadFFmpeg's downloads or in ffmpeg.load again, and every
\* conversion works on the cached engine; a convert started without a cached
\* engine (none loaded yet, or the load failed) starts the initialization afresh,
\* and a load that fails caches nothing.
C9_EngineLoadedOnce ==
    [][/\ ffmpegRef # NoEngine => ffmpegRef' = ffmpegRef
       /\ ffmpegRef # NoEngine => \A i \in Invocations : conv[i].pc \notin LoadingPcs
       /\ \A i \in Invocations :
            conv[i].pc \in EnginePcs => (ffmpegRef # NoEngine /\ conv[i].ffmpeg = ffmpegRef)
       /\ \A i \in Invocations :
            (conv[i].pc = "idle" /\ conv'[i].pc # "idle") =>
                (conv'[i].pc = (IF ffmpegRef = NoEngine THEN "toBlobURL1" ELSE "fetchFile"))
       /\ consoleErrors' # consoleErrors => ffmpegRef' = ffmpegRef]_vars

\* A later conversion is writing its file into the engine an earlier one loaded.
C9_Witness ==
    \E i \in Invocations :
        /\ conv[i].pc = "writeFile"
        /\ conv[i].ffmpeg = ffmpegRef
        /\ conv[i].ffmpeg # i

\* C10: when an awaited step of a conversion throws (the catch block logs it),
\* error becomes the generic failure message and isConverting false and the
\* invocation has returned; an invocation that has returned takes no further
\* step; and with no conversion in flight the engine is not touched and a
\* conversion starts only by the Convert button (enabled, a file selected).
C10_FailureEndsConversionWithoutRetry ==
    [][/\ consoleErrors' # consoleErrors =>
            /\ error' = Some(FailedMsg)
            /\ ~isConverting'
            /\ \E i \in Invocations : InFlight(i) /\ conv'[i].pc = "done"
            /\ vfs' = vfs
       /\ \A i \in Invocations : conv[i].pc = "done" => conv'[i] = conv[i]
       /\ ~AnyInFlight =>
            /\ vfs' = vfs /\ ffmpegRef' = ffmpegRef
            /\ AnyInFlight' => (~isConverting /\ ~IsNull(file) /\ isConverting')]_vars

\* A conversion has failed after writeFile: its input is still in the engine's
\* filesystem (the deletes were skipped), the failure message is shown and
\* nothing is in flight.
C10_Witness ==
    /\ consoleErrors > 0
    /\ error = Some(FailedMsg)
    /\ ~isConverting
    /\ ~AnyInFlight
    /\ \E e \in Invocations, n \in { "input.mp4", "input.mp3" } : ~IsNull(vfs[e][n])

\* The bitrate in the "-b:a" argument of the exec that invocation i awaits.
ExecBitrate(i) == Val(conv[i].args).bitrate

\* C5: the bitrate passed to the engine is an integer from 32 to 320, for every
\* file size and every duration the probe reports.
C5_BitrateWithinRange ==
    \A i \in Invocations : conv[i].pc = "exec" =>
        /\ ExecBitrate(i).den = 1
        /\ 32 <= ExecBitrate(i).num
        /\ ExecBitrate(i).num <= 320

\* The reference of the specification for a duration d > 0:
\* clamp(floor((size * 0.8 * 8) / d / 1000), 32, 320), with size * 0.8 * 8 / 1000
\* written size * 4 / 625.
C6_Reference(size, d) ==
    LET raw == (size * 4 * d.den) \div (625 * d.num)
    IN  Num(IF raw < 32 THEN 32 ELSE IF raw > 320 THEN 320 ELSE raw)

C6_Positive(d) == d.den # 0 /\ d.num > 0

C6_WholeSeconds(d) == C6_Positive(d) /\ d.num % d.den = 0

\* C6 as stated: for every size and every positive duration the bitrate of the
\* code equals the reference.
C6_BitrateEqualsReference ==
    \A i \in Invocations :
        (conv[i].pc = "exec" /\ C6_Positive(Val(conv[i].dur))) =>
            ExecBitrate(i) = C6_Reference(Val(conv[i].file).size, Val(conv[i].dur))

\* C6 as amended: for every size and every duration of a whole number of seconds
\* the bitrate of the code equals the reference (100 MB in 100 s and 50 MB in
\* 300 s give 320); for every positive duration it is at most the reference.
C6_BitrateEqualsReferenceOnWholeSeconds ==
    \A i \in Invocations :
        (conv[i].pc = "exec" /\ C6_Positive(Val(conv[i].dur))) =>
            LET size == Val(conv[i].file).size
                d == Val(conv[i].dur)
            IN  /\ C6_WholeSeconds(d) => ExecBitrate(i) = C6_Reference(size, d)
                /\ Leq(ExecBitrate(i), C6_Reference(size, d))
                /\ (size = 104857600 /\ d = Num(100)) => ExecBitrate(i) = Num(320)
                /\ (size = 52428800 /\ d = Num(300)) => ExecBitrate(i) = Num(320)

\* An exec for a duration of whole seconds whose bitrate lies strictly between
\* the two ends of the clamp.
C6_Witness ==
    \E i \in Invocations :
        /\ conv[i].pc = "exec"
        /\ C6_WholeSeconds(Val(conv[i].dur))
        /\ ExecBitrate(i).den = 1
        /\ 32 < ExecBitrate(i).num
        /\ ExecBitrate(i).num < 320

\* C11: when a conversion fails during writeFile, exec or readFile, file is
\* still the file the conversion was started with and Convert is enabled again
\* (file non-null, isConverting false).
C11_FailurePreservesInput ==
    [][\A i \in Invocations :
            (/\ conv[i].pc \in { "writeFile", "exec", "readFile" }
             /\ consoleErrors' # consoleErrors
             /\ conv'[i].pc = "done") =>
                /\ file' = conv[i].file
                /\ ~IsNull(file')
                /\ ~isConverting']_vars

\* No invocation running exec is told a smaller fraction than the one before.
C12_FractionsNonDecreasing ==
    \A i \in Invocations :
        (conv[i].pc = "exec" /\ conv'[i].pc = "exec") =>
            Leq(conv[i].frac, conv'[i].frac)

\* C12: within one conversion attempt (isConverting true before and after the
\* step) the displayed progress never decreases, as long as the engine reports
\* non-decreasing fractions.
C12_ProgressMonotonicWithinAttempt ==
    [][(isConverting /\ isConverting' /\ C12_FractionsNonDecreasing) =>
            progress' >= progress]_vars

\* s has the element x.
Has(s, x) == \E k \in 1..Len(s) : s[k] = x

\* C14: for every accepted file whose type starts with "video/" the arguments of
\* exec contain "-vn" and name the input "input.mp4"; "-vn" is left out only for
\* a file that is not video.
C14_VideoTrackStripped ==
    \A i \in Invocations : conv[i].pc = "exec" =>
        LET f == Val(conv[i].file)
            argv == Val(conv[i].args).argv
        IN  /\ startsWith(f.type, VideoPrefix) =>
                (Has(argv, "-vn") /\ argv[2] = "input.mp4")
            /\ ~Has(argv, "-vn") => ~startsWith(f.type, VideoPrefix)

\* The step is an action of the user on the selection: a selection, by the
\* picker or a drop, or a reset, by the X button or "Convert Another".
C15_UserAction == Resets \/ \E f \in Files : Selects(f)

\* C15: while a conversion is in flight no selection and no reset changes file,
\* convertedAudio, progress, audioSize or error.
C15_NoUserWriteWhileConverting ==
    [][(isConverting /\ C15_UserAction) =>
            UNCHANGED <<file, convertedAudio, progress, audioSize, error>>]_vars

\* C16: whenever an output is exposed for download, file is the file that
\* output was converted from: it is so when readFile's continuation sets the
\* output (the source is the file the invocation captured), and file does not
\* change while that output stays on display.
C16_OutputBelongsToFile ==
    [][/\ \A i \in Invocations :
            (conv[i].pc = "readFile" /\ conv'[i].pc = "deleteFile1") =>
                (convertedAudio' = Some(OutputUrl(i)) /\ file' = conv[i].file)
       /\ (~IsNull(convertedAudio) /\ convertedAudio' = convertedAudio) =>
                file' = file]_vars

\* C17: after a conversion attempt has ended, in success or in failure, the
\* engine's virtual filesystem holds neither an input file nor output.mp3.
C17_NoFilesOutliveAttempt ==
    ~AnyInFlight => \A e \in Invocations, n \in FsNames : IsNull(vfs[e][n])

\* C18: the data a conversion reads back from output.mp3, and exposes as its
\* output, is the file its own exec produced.
C18_OutputFromOwnExec ==
    \A i \in Invocations :
        conv[i].pc \in { "deleteFile1", "deleteFile2" } => Val(conv[i].data).by = i

\* A continuation of invocation i: an awaited call of it resolving or rejecting.
Continue(i) ==
    \/ CoreUrlFetched(i)
    \/ WasmUrlFetched(i)
    \/ Loaded(i)
    \/ FileFetched(i)
    \/ FileWritten(i)
    \/ \E d \in Durations : MetadataLoaded(i, d)
    \/ \E n \in OutSizes : ExecReturned(i, Some(n))
    \/ ExecReturned(i, Null)
    \/ OutputRead(i)
    \/ InputDeleted(i)
    \/ OutputDeleted(i)
    \/ Rejected(i)

\* C13: every conversion that has started can still end: as long as it has not
\* returned, a call it awaits is pending that will resolve or reject (the engine
\* calls by assumption, the duration probe also when metadata cannot load), so
\* that under fairness isConverting becomes false.
C13_EveryConversionCanEnd ==
    \A i \in Invocations : InFlight(i) => (isConverting /\ ENABLED Continue(i))

====
